---- MODULE Spec2Model ----
(***************************************************************************)
(* Model of agora_tally/voting_systems/approval.py (class ApprovalTally).  *)
(*                                                                         *)
(* Text is modelled as a sequence of fragments (characters or whole        *)
(* answer values); a file is the sequence of the strings written to it.    *)
(* Python attribute lookup is modelled explicitly: an attribute read on an *)
(* instance yields the instance's own binding when there is one and the    *)
(* class-level object otherwise, so the class-level list `ballots` and     *)
(* dict `answer_to_ids_dict` (lines 56, 62) are single shared objects.     *)
(***************************************************************************)
EXTENDS Integers, Sequences, FiniteSets, Bags, TLC

\* ---------------------------------------------------------------- bounds
MaxVotes == 3
MaxCount == 1
MaxNumber == 1200

\* ------------------------------------------------------------ tiny helpers
Range(s) == {s[k] : k \in DOMAIN s}

Min(S) == CHOOSE x \in S : \A y \in S : x <= y

\* Optional values: <<>> is "absent", <<v>> is "present with value v".
None == <<>>
Some(v) == <<v>>

\* All sequences over S of length lo..hi without repeated elements.
DistinctSeqs(S, lo, hi) ==
  UNION {{s \in [1..n -> S] : \A a, b \in 1..n : a # b => s[a] # s[b]} : n \in lo..hi}

\* ------------------------------------------------------- text conversions
DigitChars == <<"0", "1", "2", "3", "4", "5", "6", "7", "8", "9">>

\* str(n) / '%d' % n for a non-negative integer: its decimal digits.
RECURSIVE Str(_)
Str(n) == IF n < 10 THEN <<DigitChars[n + 1]>>
          ELSE Str(n \div 10) \o <<DigitChars[(n % 10) + 1]>>

DigitVal(c) == CHOOSE d \in 0..9 : DigitChars[d + 1] = c

\* int(s) for a non-empty string of decimal digits.
RECURSIVE ParseInt(_)
ParseInt(s) == IF Len(s) = 1 THEN DigitVal(s[1])
               ELSE 10 * ParseInt(SubSeq(s, 1, Len(s) - 1)) + DigitVal(s[Len(s)])

\* sep.join(parts)
RECURSIVE Join(_, _)
Join(sep, parts) ==
  IF parts = <<>> THEN <<>>
  ELSE IF Len(parts) = 1 THEN parts[1]
  ELSE parts[1] \o sep \o Join(sep, Tail(parts))

\* s.replace("\n", "")
StripNewlines(s) == SelectSeq(s, LAMBDA c : c # "\n")

\* --------------------------------------------------------------- questions
Tallies == {1, 2}

\* result[self.question_num] as handed to each tally: the caller's inputs.
Question(t) ==
  IF t = 1
  THEN [answers |-> <<[value |-> "A"], [value |-> "B"]>>,
        min |-> 1, max |-> 2, num_seats |-> 1,
        question |-> <<"W", "h", "o", "\n", "?">>]
  ELSE [answers |-> <<[value |-> "B"], [value |-> "C"]>>,
        min |-> 1, max |-> 2, num_seats |-> 2,
        question |-> <<"\n", "X">>]

Values == {"A", "B", "C"}

\* voter_answers[question_num]['choices']: what parse_vote can hand over is a
\* non-empty list without repetitions (lines 89-105); values outside the
\* question are included, add_vote has to cope with them (line 156).
Choices == DistinctSeqs(Values, 1, 2)

\* --------------------------------------------------------------- variables
VARIABLES
  pc,                  \* position of each tally in its lifecycle
  own,                 \* attribute names bound on the instance itself
  cls_ballots,         \* the class-level list object (line 56)
  cls_answer_to_ids_dict, \* the class-level dict object (line 62)
  ballots,             \* the list object bound by init (line 77)
  answer_to_ids_dict,  \* the dict object bound by init (line 78)
  ballots_path,        \* 0 models "", t models the name mktemp returned
  ballots_file,        \* the file object: state and the strings written
  disk,                \* the file system: path -> file
  num_seats,
  report,              \* None or Some(json report)
  result,              \* the result fields of the question record
  engine_input,        \* None or Some(data the engine loaded)
  calls,               \* history: number of add_vote calls
  accepted,            \* history: bag of the choice lists that resolve fully
  pv                   \* parse_vote: its input and its outcome

vars == <<pc, own, cls_ballots, cls_answer_to_ids_dict, ballots,
          answer_to_ids_dict, ballots_path, ballots_file, disk, num_seats,
          report, result, engine_input, calls, accepted, pv>>

tallyVars == <<pc, own, cls_ballots, cls_answer_to_ids_dict, ballots,
               answer_to_ids_dict, ballots_path, ballots_file, disk, num_seats,
               report, result, engine_input, calls, accepted>>

\* ---------------------------------------------------- attribute resolution
SelfBallots(t) == IF "ballots" \in own[t] THEN ballots[t] ELSE cls_ballots

SelfDict(t) ==
  IF "answer_to_ids_dict" \in own[t] THEN answer_to_ids_dict[t]
  ELSE cls_answer_to_ids_dict

\* In-place mutation of the list object self.ballots refers to.
MutateBallots(t, new) ==
  IF "ballots" \in own[t]
  THEN ballots' = [ballots EXCEPT ![t] = new] /\ UNCHANGED cls_ballots
  ELSE cls_ballots' = new /\ UNCHANGED ballots

\* In-place mutation of the dict object self.answer_to_ids_dict refers to.
MutateDict(t, new) ==
  IF "answer_to_ids_dict" \in own[t]
  THEN answer_to_ids_dict' = [answer_to_ids_dict EXCEPT ![t] = new]
       /\ UNCHANGED cls_answer_to_ids_dict
  ELSE cls_answer_to_ids_dict' = new /\ UNCHANGED answer_to_ids_dict

EmptyDict == [v \in {} |-> 0]

NoFile == [exists |-> FALSE, data |-> <<>>]

NoResult(t) ==
  [total_votes |-> None, dirty_votes |-> None, winners |-> None,
   answers |-> [i \in 1..Len(Question(t).answers) |->
                  [total_count |-> None, total_count_percentage |-> None]]]

IdlePv == [question |-> Question(1), number |-> 0, done |-> FALSE,
           ok |-> FALSE, ret |-> <<>>]

\* ------------------------------------------------------------------ init
\* Faulty variant: init that binds neither ballots nor answer_to_ids_dict on
\* the instance, leaving both to the class.
init_no_reset(t) ==
  /\ ballots_path' = [ballots_path EXCEPT ![t] = t]
  /\ UNCHANGED <<ballots, answer_to_ids_dict, own>>

init(t) ==
  /\ ballots_path' = [ballots_path EXCEPT ![t] = t]
  /\ ballots' = [ballots EXCEPT ![t] = <<>>]
  /\ answer_to_ids_dict' = [answer_to_ids_dict EXCEPT ![t] = EmptyDict]
  /\ own' = [own EXCEPT ![t] = @ \cup {"ballots", "answer_to_ids_dict"}]

\* BaseTally's constructor runs init() on the new instance.
Construct(t) ==
  /\ pc[t] = "class"
  /\ init(t)
  /\ pc' = [pc EXCEPT ![t] = "new"]
  /\ UNCHANGED <<cls_ballots, cls_answer_to_ids_dict, ballots_file, disk,
                 num_seats, report, result, engine_input, calls, accepted, pv>>

\* -------------------------------------------------------------- pre_tally
\* codecs.open(path, mode='w'): the file exists and is empty; what is written
\* reaches the disk when the file is closed.
OpenForWriting == [state |-> "open", data |-> <<>>]

\* file.write(s): a closed file refuses the write (ValueError).
Write(f, s) == IF f.state = "open" THEN [f EXCEPT !.data = Append(@, s)] ELSE f

\* '%d %d\n' % (len(question['answers']), question['num_seats'])
HeaderLine(question) ==
  Str(Len(question.answers)) \o <<" ">> \o Str(question.num_seats) \o <<"\n">>

\* The loop of lines 123-126 from answer i on, on dict d.
RECURSIVE FillDict(_, _, _)
FillDict(d, answers, i) ==
  IF i > Len(answers) THEN d
  ELSE FillDict((answers[i].value :> i) @@ d, answers, i + 1)

pre_tally(t) ==
  LET question == Question(t) IN
  /\ disk' = [disk EXCEPT ![ballots_path[t]] = [exists |-> TRUE, data |-> <<>>]]
  /\ num_seats' = [num_seats EXCEPT ![t] = question.num_seats]
  /\ MutateDict(t, FillDict(SelfDict(t), question.answers, 1))
  /\ ballots_file' = [ballots_file EXCEPT
                        ![t] = Write(OpenForWriting, HeaderLine(question))]

PreTally(t) ==
  /\ pc[t] = "new"
  /\ pre_tally(t)
  /\ pc' = [pc EXCEPT ![t] = "open"]
  /\ UNCHANGED <<own, cls_ballots, ballots, ballots_path, report, result,
                 engine_input, calls, accepted, pv>>

\* --------------------------------------------------------------- add_vote
\* Faulty variant: a default id for an unknown answer.
answer2id_default(t, answer) ==
  IF answer \in DOMAIN SelfDict(t) THEN SelfDict(t)[answer] ELSE 1

answer2id(t, answer) ==
  IF answer \in DOMAIN SelfDict(t) THEN SelfDict(t)[answer] ELSE -1

\* Faulty variant: only the first ballot is looked at.
find_ballot_first_only(t, answers) ==
  LET bs == SelfBallots(t) IN
  IF bs # <<>> /\ bs[1].answers = answers THEN 1 ELSE 0

\* Variant: ballots compared as sets of ids.
find_ballot_as_set(t, answers) ==
  LET bs == SelfBallots(t)
      hits == {k \in DOMAIN bs : Range(bs[k].answers) = Range(answers)}
  IN IF hits = {} THEN 0 ELSE Min(hits)

\* The position in self.ballots of the first ballot with these answers (list
\* equality), 0 for None.
find_ballot(t, answers) ==
  LET bs == SelfBallots(t)
      hits == {k \in DOMAIN bs : bs[k].answers = answers}
  IN IF hits = {} THEN 0 ELSE Min(hits)

\* Faulty variant: a new ballot starts at zero.
NewBallot_zero(answers) == [votes |-> 0, answers |-> answers]

\* dict(votes=1, answers=answers)
NewBallot(answers) == [votes |-> 1, answers |-> answers]

add_vote(t, choices) ==
  LET answers == [k \in DOMAIN choices |-> answer2id(t, choices[k])]
      ballot == find_ballot(t, answers)
      bs == SelfBallots(t)
  IN IF -1 \in Range(answers)
     THEN UNCHANGED <<ballots, cls_ballots>>
     ELSE IF ballot # 0
          THEN MutateBallots(t, [bs EXCEPT ![ballot].votes = @ + 1])
          ELSE MutateBallots(t, Append(bs, NewBallot(answers)))

\* The values of the question the tally was prepared for.
QuestionValues(t) == {Question(t).answers[i].value : i \in DOMAIN Question(t).answers}

Resolves(t, choices) == Range(choices) \subseteq QuestionValues(t)

AddVote(t) ==
  /\ pc[t] = "open"
  /\ calls[t] < MaxVotes
  /\ \E choices \in Choices :
       /\ add_vote(t, choices)
       /\ calls' = [calls EXCEPT ![t] = @ + 1]
       /\ accepted' = [accepted EXCEPT
            ![t] = IF Resolves(t, choices) THEN @ (+) SetToBag({choices}) ELSE @]
  /\ UNCHANGED <<pc, own, cls_answer_to_ids_dict, answer_to_ids_dict,
                 ballots_path, ballots_file, disk, num_seats, report, result,
                 engine_input, pv>>

\* ------------------------------------------------------------- post_tally
\* '%d %s 0\n' % (ballot['votes'], ' '.join([str(a) for a in ballot['answers']]))
BallotLine(ballot) ==
  Str(ballot.votes) \o <<" ">>
    \o Join(<<" ">>, [k \in DOMAIN ballot.answers |-> Str(ballot.answers[k])])
    \o <<" ", "0", "\n">>

\* u'"%s"\n' % name
QuotedLine(text) == <<"\"">> \o text \o <<"\"", "\n">>

\* Writes each string of lines to f, in order.
RECURSIVE WriteAll(_, _)
WriteAll(f, lines) ==
  IF lines = <<>> THEN f ELSE WriteAll(Write(f, Head(lines)), Tail(lines))

\* file.close()
Close(f) == [f EXCEPT !.state = "closed"]

\* Faulty variant: the end-of-ballots line is written before the ballots.
finish_writing_ballots_file_early_end(t) ==
  LET question == Question(t)
      bs == SelfBallots(t)
      f1 == Write(ballots_file[t], <<"0", "\n">>)
      f2 == WriteAll(f1, [k \in DOMAIN bs |-> BallotLine(bs[k])])
      f3 == WriteAll(f2, [i \in DOMAIN question.answers |->
                            QuotedLine(<<question.answers[i].value>>)])
      f4 == Write(f3, QuotedLine(StripNewlines(question.question)))
  IN /\ ballots_file' = [ballots_file EXCEPT ![t] = Close(f4)]
     /\ disk' = [disk EXCEPT ![ballots_path[t]].data = f4.data]

finish_writing_ballots_file(t) ==
  LET question == Question(t)
      bs == SelfBallots(t)
      f1 == WriteAll(ballots_file[t], [k \in DOMAIN bs |-> BallotLine(bs[k])])
      f2 == Write(f1, <<"0", "\n">>)
      f3 == WriteAll(f2, [i \in DOMAIN question.answers |->
                            QuotedLine(<<question.answers[i].value>>)])
      f4 == Write(f3, QuotedLine(StripNewlines(question.question)))
  IN /\ ballots_file' = [ballots_file EXCEPT ![t] = Close(f4)]
     /\ disk' = [disk EXCEPT ![ballots_path[t]].data = f4.data]

FinishWritingBallotsFile(t) ==
  /\ pc[t] = "open"
  /\ finish_writing_ballots_file(t)
  /\ pc' = [pc EXCEPT ![t] = "written"]
  /\ UNCHANGED <<own, cls_ballots, cls_answer_to_ids_dict, ballots,
                 answer_to_ids_dict, ballots_path, num_seats, report, result,
                 engine_input, calls, accepted, pv>>

\* A winner name as the engine reports it: a byte string.
Utf8(name) == <<"utf-8", name>>

\* winner.decode('utf-8')
Utf8Decode(bytes) == bytes[2]

\* report.json as the engine may produce it for the question of tally t: the
\* per-answer counts may lack an answer of the question.
Reports(t) ==
  LET names == QuestionValues(t) IN
  {[ballots_count |-> b, dirty_ballots_count |-> b + d, winners |-> w, answers |-> a] :
     b \in 0..MaxCount, d \in 0..1,
     w \in {<<>>, <<Utf8(Question(t).answers[1].value)>>},
     a \in UNION {[S -> 0..MaxCount] : S \in SUBSET names}}

\* dirtyBallots.loadKnown(self.ballots_path) up to generateReport(): the engine
\* reads the file from the disk, then either fails or delivers a report.
perform_tally(t, outcome) ==
  /\ disk[ballots_path[t]].exists
  /\ engine_input' = [engine_input EXCEPT ![t] = Some(disk[ballots_path[t]].data)]
  /\ report' = [report EXCEPT ![t] = outcome]

PerformTally(t) ==
  /\ pc[t] = "written"
  /\ \/ /\ perform_tally(t, None)
        /\ pc' = [pc EXCEPT ![t] = "failed"]
     \/ /\ \E r \in Reports(t) : perform_tally(t, Some(r))
        /\ pc' = [pc EXCEPT ![t] = "tallied"]
  /\ UNCHANGED <<own, cls_ballots, cls_answer_to_ids_dict, ballots,
                 answer_to_ids_dict, ballots_path, ballots_file, disk, num_seats,
                 result, calls, accepted, pv>>

RECURSIVE SumOver(_, _)
SumOver(f, keys) ==
  IF keys = {} THEN 0
  ELSE LET k == CHOOSE x \in keys : TRUE IN f[k] + SumOver(f, keys \ {k})

\* Faulty variant: the number of ballots taken for the total.
TotalVotes_ballots_count(json_report) == json_report.ballots_count

\* Lines 224-226: the sum of the per-answer counts of the report.
TotalVotes(json_report) == SumOver(json_report.answers, DOMAIN json_report.answers)

\* Lines 233-236; the quotient is kept exact, as numerator and denominator.
Percentage(total_count, total_votes) ==
  IF total_votes > 0 THEN [num |-> total_count * 100, den |-> total_votes]
  ELSE [num |-> 0, den |-> 1]

\* The index of the first answer of the question the report has no count for
\* (the KeyError of line 232), Len + 1 when there is none.
FirstMissing(question, json_report) ==
  LET missing == {i \in DOMAIN question.answers :
                    question.answers[i].value \notin DOMAIN json_report.answers}
  IN IF missing = {} THEN Len(question.answers) + 1 ELSE Min(missing)

fill_results(t) ==
  LET json_report == report[t][1]
      question == Question(t)
      total_votes == TotalVotes(json_report)
      stop == FirstMissing(question, json_report)
      winners == [k \in DOMAIN json_report.winners |-> Utf8Decode(json_report.winners[k])]
  IN /\ report' = [report EXCEPT ![t] = Some([json_report EXCEPT !.winners = winners])]
     /\ result' = [result EXCEPT ![t] =
          [total_votes |-> Some(json_report.ballots_count),
           dirty_votes |-> Some(json_report.dirty_ballots_count - json_report.ballots_count),
           winners |-> Some(winners),
           answers |-> [i \in DOMAIN question.answers |->
             IF i < stop
             THEN LET total_count == json_report.answers[question.answers[i].value] IN
                  [total_count |-> Some(total_count),
                   total_count_percentage |-> Some(Percentage(total_count, total_votes))]
             ELSE @.answers[i]]]]

FillResults(t) ==
  /\ pc[t] = "tallied"
  /\ fill_results(t)
  /\ pc' = [pc EXCEPT ![t] =
       IF FirstMissing(Question(t), report[t][1]) > Len(Question(t).answers)
       THEN "done" ELSE "failed"]
  /\ UNCHANGED <<own, cls_ballots, cls_answer_to_ids_dict, ballots,
                 answer_to_ids_dict, ballots_path, ballots_file, disk, num_seats,
                 engine_input, calls, accepted, pv>>

\* --------------------------------------------------------- specifications
TallyInit ==
  /\ pc = [t \in Tallies |-> "class"]
  /\ own = [t \in Tallies |-> {}]
  /\ cls_ballots = <<>>
  /\ cls_answer_to_ids_dict = EmptyDict
  /\ ballots = [t \in Tallies |-> <<>>]
  /\ answer_to_ids_dict = [t \in Tallies |-> EmptyDict]
  /\ ballots_path = [t \in Tallies |-> 0]
  /\ ballots_file = [t \in Tallies |-> [state |-> "none", data |-> <<>>]]
  /\ disk = [p \in Tallies |-> NoFile]
  /\ num_seats = [t \in Tallies |-> -1]
  /\ report = [t \in Tallies |-> None]
  /\ result = [t \in Tallies |-> NoResult(t)]
  /\ engine_input = [t \in Tallies |-> None]
  /\ calls = [t \in Tallies |-> 0]
  /\ accepted = [t \in Tallies |-> EmptyBag]

Init == TallyInit /\ pv = IdlePv

\* One question tallied from construction to the filled result.
Next ==
  \E t \in {1} :
    \/ Construct(t)
    \/ PreTally(t)
    \/ AddVote(t)
    \/ FinishWritingBallotsFile(t)
    \/ PerformTally(t)
    \/ FillResults(t)

Spec == Init /\ [][Next]_vars

\* Two questions, one tally each, their calls interleaved in any order.
NextIso ==
  \E t \in Tallies :
    \/ Construct(t)
    \/ PreTally(t)
    \/ AddVote(t)

SpecIso == Init /\ [][NextIso]_vars

\* ------------------------------------------------------------- parse_vote
\* "0" * n
Zeros(n) == [k \in 1..n |-> "0"]

\* A raised Exception: no list is returned.
Raised == [ok |-> FALSE, ret |-> <<>>]

\* The loop of lines 90-100 from iteration i on, ret being the list so far.
RECURSIVE ParseFields(_, _, _, _, _)
ParseFields(vote_str, tab_size, question, i, ret) ==
  IF i >= Len(vote_str) \div tab_size THEN [ok |-> TRUE, ret |-> ret]
  ELSE LET option == ParseInt(SubSeq(vote_str, i * tab_size + 1, (i + 1) * tab_size)) - 1
       IN IF option < 0 THEN Raised
          ELSE IF option >= Len(question.answers) THEN Raised
          ELSE ParseFields(vote_str, tab_size, question, i + 1,
                           Append(ret, question.answers[option + 1].value))

\* Faulty variant: no test for repeated selections.
parse_vote_repeats(number, question) ==
  LET vote_str == Str(number)
      tab_size == Len(Str(Len(question.answers) + 2))
      num_zeros == (tab_size - (Len(vote_str) % tab_size)) % tab_size
      padded == IF Len(vote_str) % tab_size # 0 THEN Zeros(num_zeros) \o vote_str
                ELSE vote_str
      parsed == ParseFields(padded, tab_size, question, 0, <<>>)
  IN IF ~parsed.ok THEN Raised
     ELSE IF Len(parsed.ret) < question.min \/ Len(parsed.ret) > question.max
          THEN Raised
          ELSE parsed

parse_vote(number, question) ==
  LET vote_str == Str(number)
      tab_size == Len(Str(Len(question.answers) + 2))
      num_zeros == (tab_size - (Len(vote_str) % tab_size)) % tab_size
      padded == IF Len(vote_str) % tab_size # 0 THEN Zeros(num_zeros) \o vote_str
                ELSE vote_str
      parsed == ParseFields(padded, tab_size, question, 0, <<>>)
  IN IF ~parsed.ok THEN Raised
     ELSE IF \/ Len(parsed.ret) < question.min
             \/ Len(parsed.ret) > question.max
             \/ Cardinality(Range(parsed.ret)) # Len(parsed.ret)
          THEN Raised
          ELSE parsed

AnswerNames == <<"A", "B", "C", "D", "E", "F", "G", "H">>

\* The questions parse_vote is applied to: 3 answers (one digit per field)
\* and 8 answers (two digits per field).
ParseQuestions ==
  {[answers |-> [i \in 1..n |-> [value |-> AnswerNames[i]]],
    min |-> mn, max |-> mx, num_seats |-> 1, question |-> <<"Q">>] :
     n \in {3, Len(AnswerNames)}, mn \in 0..2, mx \in 1..2}

ParseInit ==
  /\ TallyInit
  /\ pv \in {[question |-> q, number |-> n, done |-> FALSE, ok |-> FALSE, ret |-> <<>>] :
               q \in {x \in ParseQuestions : x.min <= x.max}, n \in 0..MaxNumber}

ParseVote ==
  /\ ~pv.done
  /\ LET out == parse_vote(pv.number, pv.question)
     IN pv' = [pv EXCEPT !.done = TRUE, !.ok = out.ok, !.ret = out.ret]
  /\ UNCHANGED tallyVars

SpecParse == ParseInit /\ [][ParseVote]_vars

\* ================================================================ claims
\* The id the answer index of the question of tally t gives value v: its
\* 1-based position among the question's answers.
PositionOf(t, v) == CHOOSE i \in DOMAIN Question(t).answers : Question(t).answers[i].value = v

IdsOf(t, choices) == [k \in DOMAIN choices |-> PositionOf(t, choices[k])]

\* How many of the accepted votes of tally t carry exactly these ids, in order.
RECURSIVE SumCopies(_, _)
SumCopies(B, S) ==
  IF S = {} THEN 0
  ELSE LET c == CHOOSE x \in S : TRUE IN CopiesIn(c, B) + SumCopies(B, S \ {c})

AcceptedWithIds(t, ids) ==
  SumCopies(accepted[t], {c \in BagToSet(accepted[t]) : IdsOf(t, c) = ids})

RECURSIVE SumVotes(_)
SumVotes(bs) == IF bs = <<>> THEN 0 ELSE Head(bs).votes + SumVotes(Tail(bs))

\* ---- C1
\* C1 as stated: ballots are grouped by the set of their ids, so no two
\* entries of the ballot collection hold the same id-set.
C1_GroupedBySet ==
  \A t \in Tallies :
    LET bs == SelfBallots(t) IN
    \A i, j \in DOMAIN bs :
      i # j => Range(bs[i].answers) # Range(bs[j].answers)

\* C1 as amended: ballots are grouped by the sequence of their ids. No two
\* entries hold the same id sequence, and the count of an entry is the number
\* of accepted votes with exactly that sequence, so that votes selecting the
\* same answers in another order are counted in an entry of their own.
C1_GroupedBySequence ==
  \A t \in Tallies :
    LET bs == SelfBallots(t) IN
    /\ \A i, j \in DOMAIN bs : i # j => bs[i].answers # bs[j].answers
    /\ \A i \in DOMAIN bs : bs[i].votes = AcceptedWithIds(t, bs[i].answers)

\* Two votes with the same sequence share an entry while a third with the
\* same set in another order has its own.
C1_Witness ==
  LET bs == SelfBallots(1) IN
  \E i, j \in DOMAIN bs :
    /\ i # j
    /\ bs[i].votes = 2
    /\ Range(bs[i].answers) = Range(bs[j].answers)

\* ---- C3
\* An add_vote call on an open tally whose choices hold a value that is not an
\* answer of its question changes no ballot list.
C3_DiscardStep ==
  \A t \in Tallies : \A choices \in Choices :
    (pc[t] = "open" /\ ~Resolves(t, choices) /\ add_vote(t, choices))
      => UNCHANGED <<ballots, cls_ballots>>

\* C3: a vote with a value the answer index does not know (answer2id gives
\* -1, never a default id) is discarded whole: no ballot is inserted and no
\* count is incremented by that call.
C3_UnknownDiscarded == [][C3_DiscardStep]_vars

\* A vote was discarded and votes were counted around it.
C3_Witness ==
  /\ calls[1] = BagCardinality(accepted[1]) + 1
  /\ SumVotes(SelfBallots(1)) = 2

\* ---- C4
C4_Counts ==
  \A t \in Tallies :
    LET bs == SelfBallots(t) IN
    /\ \A i \in DOMAIN bs : bs[i].votes >= 1
    /\ SumVotes(bs) = BagCardinality(accepted[t])
    /\ BagCardinality(accepted[t]) <= calls[t]

C4_AcceptStep ==
  \A t \in Tallies :
    accepted'[t] # accepted[t] =>
      LET bs == SelfBallots(t)
          after == SelfBallots(t)'
      IN \/ /\ Len(after) = Len(bs) + 1
            /\ SubSeq(after, 1, Len(bs)) = bs
            /\ after[Len(after)].votes = 1
         \/ /\ Len(after) = Len(bs)
            /\ \E i \in DOMAIN bs :
                 /\ after[i] = [bs[i] EXCEPT !.votes = @ + 1]
                 /\ \A j \in DOMAIN bs : j # i => after[j] = bs[j]

\* C4: every ballot has count >= 1 and the counts add up to the number of
\* add_vote calls that were not discarded; an accepted call either adds one to
\* the count of one existing ballot or appends one ballot with count 1.
C4_CountsAddUp == []C4_Counts /\ [][C4_AcceptStep]_vars

\* Three votes were accepted, two of them into the same ballot.
C4_Witness ==
  LET bs == SelfBallots(1) IN
  /\ BagCardinality(accepted[1]) = 3
  /\ Len(bs) = 2
  /\ \E i \in DOMAIN bs : bs[i].votes = 2

\* ---- C10
\* No two votes of the bag select the same set of answers.
PairwiseDistinctSets(B) ==
  /\ \A c \in BagToSet(B) : CopiesIn(c, B) = 1
  /\ \A c, d \in BagToSet(B) : c # d => Range(c) # Range(d)

\* C10: accepted votes with pairwise-distinct selection sets give one ballot
\* of count 1 each, and the number of ballots is a function of the collection
\* of accepted votes alone, whatever the order they were added in.
C10_OrderIndependent ==
  \A t \in Tallies :
    LET bs == SelfBallots(t) IN
    /\ Len(bs) = Cardinality(BagToSet(accepted[t]))
    /\ PairwiseDistinctSets(accepted[t]) =>
         /\ Len(bs) = BagCardinality(accepted[t])
         /\ \A i \in DOMAIN bs : bs[i].votes = 1

\* Three accepted votes with three different selection sets.
C10_Witness ==
  /\ BagCardinality(accepted[1]) = 3
  /\ PairwiseDistinctSets(accepted[1])
  /\ Len(SelfBallots(1)) = 3

\* ---- C2
RECURSIVE Pow10(_)
Pow10(k) == IF k = 0 THEN 1 ELSE 10 * Pow10(k - 1)

\* The number of decimal digits of n >= 0.
RECURSIVE NumDigits(_)
NumDigits(n) == IF n < 10 THEN 1 ELSE 1 + NumDigits(n \div 10)

\* The k-th of nf fields of w digits of the zero-padded decimal number.
FieldAt(number, w, nf, k) == (number \div Pow10(w * (nf - k))) % Pow10(w)

\* C2: with fields of width = digits of (len(answers) + 2) taken from the
\* zero-left-padded decimal number, parse_vote succeeds exactly when every
\* field lies in 1..len(answers), the number of fields lies in [min, max] and
\* the selections are pairwise distinct; it then returns the answer values at
\* positions field - 1 in field order, and otherwise returns nothing.
C2_ParseVote ==
  pv.done =>
    LET question == pv.question
        n == Len(question.answers)
        w == NumDigits(n + 2)
        nf == (NumDigits(pv.number) + w - 1) \div w
        field == [k \in 1..nf |-> FieldAt(pv.number, w, nf, k)]
        valid == /\ \A k \in 1..nf : field[k] \in 1..n
                 /\ question.min <= nf /\ nf <= question.max
                 /\ \A j, k \in 1..nf :
                      j # k => question.answers[field[j]].value
                                 # question.answers[field[k]].value
    IN /\ pv.ok <=> valid
       /\ pv.ok => pv.ret = [k \in 1..nf |-> question.answers[field[k]].value]
       /\ ~pv.ok => pv.ret = <<>>

\* A three-digit number read as two two-digit fields after padding.
C2_Witness ==
  /\ pv.done /\ pv.ok
  /\ Len(pv.question.answers) = 8
  /\ pv.number < 1000
  /\ Len(pv.ret) = 2

\* ---- C5
\* The ballot line of the format: the count, each id after a blank, and the
\* closing 0.
RECURSIVE SpacedIds(_)
SpacedIds(ids) == IF ids = <<>> THEN <<>> ELSE <<" ">> \o Str(Head(ids)) \o SpacedIds(Tail(ids))

FormatBallot(ballot) == Str(ballot.votes) \o SpacedIds(ballot.answers) \o <<" ", "0", "\n">>

FormatHeader(t) ==
  Str(Len(Question(t).answers)) \o <<" ">> \o Str(Question(t).num_seats) \o <<"\n">>

FormatFile(t) ==
  LET bs == SelfBallots(t)
      answers == Question(t).answers
  IN <<FormatHeader(t)>>
       \o [k \in DOMAIN bs |-> FormatBallot(bs[k])]
       \o << <<"0", "\n">> >>
       \o [i \in DOMAIN answers |-> <<"\"", answers[i].value, "\"", "\n">>]
       \o << <<"\"">> \o SelectSeq(Question(t).question, LAMBDA c : c # "\n")
               \o <<"\"", "\n">> >>

C5_Content ==
  \A t \in Tallies :
    /\ pc[t] = "open" => ballots_file[t].data = <<FormatHeader(t)>>
    /\ pc[t] \in {"written", "tallied", "done", "failed"} =>
         /\ ballots_file[t].state = "closed"
         /\ ballots_file[t].data = FormatFile(t)
         /\ \A k \in DOMAIN SelfBallots(t) :
              Range(SelfBallots(t)[k].answers) \subseteq 1..Len(Question(t).answers)

C5_ClosedStep ==
  \A t \in Tallies :
    ballots_file[t].state = "closed" => ballots_file'[t] = ballots_file[t]

\* C5: the file holds, in this order, the header line, one line per ballot
\* with ids in 1..answerCount, the line "0", one quoted line per answer in
\* answer order and the quoted question text without newlines; nothing is
\* written once the file is closed.
C5_FileFormat == []C5_Content /\ [][C5_ClosedStep]_vars

\* A written file with two ballot lines, one of them with two ids.
C5_Witness ==
  /\ pc[1] = "written"
  /\ Len(SelfBallots(1)) = 2
  /\ \E k \in DOMAIN SelfBallots(1) :
       Len(SelfBallots(1)[k].answers) = 2 /\ SelfBallots(1)[k].votes = 2

\* ---- C6
\* C6: the engine reads the fully written, closed file, and the file is gone
\* from the disk on every exit of post_tally, the failing ones included.
C6_ScopedResource ==
  \A t \in Tallies :
    /\ engine_input[t] # None =>
         /\ ballots_file[t].state = "closed"
         /\ engine_input[t] = Some(ballots_file[t].data)
    /\ pc[t] \in {"done", "failed"} => ~disk[ballots_path[t]].exists

\* ---- C7
ResultComplete(t) ==
  /\ result[t].total_votes # None
  /\ result[t].dirty_votes # None
  /\ result[t].winners # None
  /\ \A i \in DOMAIN result[t].answers :
       /\ result[t].answers[i].total_count # None
       /\ result[t].answers[i].total_count_percentage # None

\* C7: post_tally ends with every result field of the question set, or it
\* fails with none of them set.
C7_AllOrNothing ==
  \A t \in Tallies :
    /\ pc[t] = "done" => ResultComplete(t)
    /\ pc[t] = "failed" => result[t] = NoResult(t)

\* ---- C8
\* C8: with total the sum of the report's per-answer counts, an answer's
\* percentage is 0 when total = 0 and total_count * 100 / total otherwise,
\* and lies in [0, 100].
C8_Percentage ==
  \A t \in Tallies : \A i \in DOMAIN result[t].answers :
    result[t].answers[i].total_count_percentage # None =>
      LET p == result[t].answers[i].total_count_percentage[1]
          count == result[t].answers[i].total_count[1]
          counts == report[t][1].answers
          total == SumOver(counts, DOMAIN counts)
      IN /\ count = counts[Question(t).answers[i].value]
         /\ total = 0 => p = [num |-> 0, den |-> 1]
         /\ total # 0 => p.den > 0 /\ p.num * total = count * 100 * p.den
         /\ 0 <= p.num /\ p.num <= 100 * p.den

\* A filled result in which an answer holds a part of a non-zero total.
C8_Witness ==
  /\ pc[1] = "done"
  /\ \E i \in DOMAIN result[1].answers :
       LET p == result[1].answers[i].total_count_percentage[1]
       IN 0 < p.num /\ p.num < 100 * p.den

\* ---- C9
\* The answer index tally t is to hold: empty until pre_tally, then value ->
\* 1-based position for the answers of its own question.
OwnIndex(t) ==
  IF pc[t] \in {"class", "new"} THEN EmptyDict
  ELSE [v \in QuestionValues(t) |-> PositionOf(t, v)]

\* C9: whatever the interleaving of the calls on two tallies, each tally's
\* answer index is the index of its own question and its ballots are the
\* ballots of its own accepted votes.
C9_NoSharedState ==
  \A t \in Tallies :
    LET bs == SelfBallots(t) IN
    /\ SelfDict(t) = OwnIndex(t)
    /\ SumVotes(bs) = BagCardinality(accepted[t])
    /\ \A i \in DOMAIN bs : bs[i].votes = AcceptedWithIds(t, bs[i].answers)

\* Both tallies hold ballots, and the value the two questions share has a
\* different id in each.
C9_Witness ==
  /\ \A t \in Tallies : Len(SelfBallots(t)) = 2
  /\ SelfDict(1)["B"] # SelfDict(2)["B"]
  /\ SelfBallots(1) # SelfBallots(2)

====
